---------------------------- MODULE Spec2Model ----------------------------
(***************************************************************************)
(* A model of the syllabus question-answering pipeline (rag_pipeline.py)   *)
(* and of the Streamlit session that drives it (app.py).                   *)
(*                                                                         *)
(* Strings are sequences of one-character strings, so that slicing,        *)
(* searching, trimming and joining are computed, not assumed.              *)
(*                                                                         *)
(* The module holds five specifications, one for each part of the program: *)
(*   SpecChunk     chunk_text, one step per loop iteration                 *)
(*   SpecIndex     process_pdf, one step per upsert call                   *)
(*   SpecRetrieve  retrieve_context                                        *)
(*   SpecEmbedder  get_embedder called from several threads                *)
(*   SpecChat      the chat handlers of one browser session                *)
(***************************************************************************)
EXTENDS Integers, Sequences, FiniteSets, TLC

VARIABLES
    \* chunk_text: its arguments and locals
    text, chunk_size, overlap, start, end, chunk, last_period, chunks,
    result, cpc,
    \* process_pdf and the upload block of app.py
    pdf_chunks, vectors, batch_i, index, upsert_log, returned, ppc,
    pdf_processed, status, runs, completed, first_index,
    \* retrieve_context
    store, top_k, matches, context, sources, rpc,
    \* get_embedder
    embedder, tpc, built, got, constructed, serial,
    \* the chat of one session
    messages, last_action

chunkVars == <<text, chunk_size, overlap, start, end, chunk, last_period,
               chunks, result, cpc>>
indexVars == <<pdf_chunks, vectors, batch_i, index, upsert_log, returned, ppc,
               status, runs, completed, first_index>>
retrVars == <<store, top_k, matches, context, sources, rpc>>
embVars == <<embedder, tpc, built, got, constructed, serial>>
chatVars == <<messages, last_action>>

vars == <<chunkVars, indexVars, pdf_processed, retrVars, embVars, chatVars>>

-----------------------------------------------------------------------------
(* Bounds of the model *)

MaxTextLen == 6
MaxIter == 4
LongPad == 49
NumThreads == 3
MaxChunks == 101
MaxRuns == 2
MaxStored == 3
MaxMessages == 4

(* Constants of the program *)

DefaultChunkSize == 500
DefaultOverlap == 100
MinChunkLen == 50
BatchSize == 50
HexLen == 16
DefaultTopK == 4
SnippetLen == 60

-----------------------------------------------------------------------------
(* Python's string operations *)

Space == " "
Newline == "\n"
Period == "."
Whitespace == {Space, Newline}
Alphabet == {"a", Period, Space, Newline}

Max(S) == CHOOSE x \in S : \A y \in S : y <= x
Min2(a, b) == IF a <= b THEN a ELSE b

Rep(c, n) == [i \in 1..n |-> c]

\* A slice index brought into 0..L the way Python does it.
ClampIndex(k, L) ==
    IF k < 0 THEN (IF k + L < 0 THEN 0 ELSE k + L)
    ELSE IF k > L THEN L ELSE k

\* s[i:j], with 0-based i and j, either of which may be negative or too large.
PySlice(s, i, j) ==
    LET a == ClampIndex(i, Len(s))
        b == ClampIndex(j, Len(s))
    IN  IF a >= b THEN <<>> ELSE SubSeq(s, a + 1, b)

\* s.rfind('. '): the highest 0-based offset of ". " in s, or -1.
RFindPeriodSpace(s) ==
    LET hits == {i \in 0..(Len(s) - 2) : s[i + 1] = Period /\ s[i + 2] = Space}
    IN  IF hits = {} THEN -1 ELSE Max(hits)

\* s.strip()
Strip(s) ==
    LET keep == {i \in 1..Len(s) : s[i] \notin Whitespace}
    IN  IF keep = {} THEN <<>>
        ELSE SubSeq(s, CHOOSE i \in keep : \A j \in keep : i <= j, Max(keep))

\* The length of the run of c that starts at position i of s.
RECURSIVE RunLen(_, _, _)
RunLen(s, c, i) ==
    IF i > Len(s) \/ s[i] /= c THEN 0 ELSE 1 + RunLen(s, c, i + 1)

\* re.sub(c{least,}, c * keep, s) from position i on: every maximal run of at
\* least `least` copies of c becomes `keep` copies, shorter runs stay.
RECURSIVE CollapseFrom(_, _, _, _, _)
CollapseFrom(s, c, least, keep, i) ==
    IF i > Len(s) THEN <<>>
    ELSE IF s[i] /= c THEN <<s[i]>> \o CollapseFrom(s, c, least, keep, i + 1)
    ELSE LET n == RunLen(s, c, i)
         IN  Rep(c, IF n >= least THEN keep ELSE n)
                 \o CollapseFrom(s, c, least, keep, i + n)

\* The two re.sub calls at the head of chunk_text.
NormalizeWhitespace(s) ==
    CollapseFrom(CollapseFrom(s, Newline, 3, 2, 1), Space, 2, 1, 1)

-----------------------------------------------------------------------------
(* The parts of the program a specification does not exercise stay as they *)
(* are before their first use.                                             *)

Threads == 1..NumThreads

IdleChunk ==
    /\ text = <<>> /\ chunk_size = DefaultChunkSize /\ overlap = DefaultOverlap
    /\ start = 0 /\ end = 0 /\ chunk = <<>> /\ last_period = -1
    /\ chunks = <<>> /\ result = <<>> /\ cpc = "call"

IdleIndex ==
    /\ pdf_chunks = <<>> /\ vectors = <<>> /\ batch_i = 0
    /\ index = <<>> /\ upsert_log = <<>> /\ returned = -1 /\ ppc = "idle"
    /\ pdf_processed = FALSE /\ status = "none" /\ runs = 0
    /\ completed = 0 /\ first_index = <<>>

IdleRetrieve ==
    /\ store = <<>> /\ top_k = DefaultTopK /\ matches = <<>>
    /\ context = <<>> /\ sources = <<>> /\ rpc = "call"

IdleEmbedder ==
    /\ embedder = 0
    /\ tpc = [t \in Threads |-> "idle"]
    /\ built = [t \in Threads |-> 0]
    /\ got = [t \in Threads |-> 0]
    /\ constructed = 0
    /\ serial = TRUE

IdleChat ==
    /\ messages = <<>> /\ last_action = "none"

-----------------------------------------------------------------------------
(* chunk_text *)

Strings(n) == UNION {[1..k -> Alphabet] : k \in 0..n}

\* The texts chunk_text is given: every short text, and texts whose length
\* lies around the length filter.
Texts == Strings(MaxTextLen) \cup {Rep("a", LongPad) \o t : t \in Strings(2)}
ChunkSizes == {2, 5, DefaultChunkSize}
Overlaps == {0, 1, 2, DefaultOverlap}

InitChunk ==
    /\ text \in Texts
    /\ chunk_size \in ChunkSizes
    /\ overlap \in Overlaps
    /\ start = 0
    /\ end = 0
    /\ chunk = <<>>
    /\ last_period = -1
    /\ chunks = <<>>
    /\ result = <<>>
    /\ cpc = "call"

\* Lines 65-69: the whitespace clean-up and the loop's initial state.
ChunkEnter ==
    /\ cpc = "call"
    /\ text' = NormalizeWhitespace(text)
    /\ chunks' = <<>>
    /\ start' = 0
    /\ cpc' = "loop"
    /\ UNCHANGED <<chunk_size, overlap, end, chunk, last_period, result>>
    /\ UNCHANGED <<indexVars, pdf_processed, retrVars, embVars, chatVars>>

\* SentenceCut with the comparison off by one (>= for >).
SentenceCutAtHalf(window, size) ==
    LET lp == RFindPeriodSpace(window)
    IN  IF lp >= size \div 2 THEN PySlice(window, 0, lp + 1) ELSE window

\* Lines 75-77: the window cut back to its last sentence end.
SentenceCut(window, size) ==
    LET lp == RFindPeriodSpace(window)
    IN  IF lp > size \div 2 THEN PySlice(window, 0, lp + 1) ELSE window

\* Line 80: the next start offset.
Advance(from, cut, o) == from + Len(cut) - o

\* Lines 70-80: one iteration of the while loop.
ChunkStep ==
    /\ cpc = "loop"
    /\ start < Len(text)
    /\ Len(chunks) < MaxIter
    /\ LET window == PySlice(text, start, start + chunk_size)
           cut == SentenceCut(window, chunk_size)
       IN  /\ end' = start + chunk_size
           /\ last_period' = RFindPeriodSpace(window)
           /\ chunk' = cut
           /\ chunks' = Append(chunks, Strip(cut))
           /\ start' = Advance(start, cut, overlap)
    /\ UNCHANGED <<text, chunk_size, overlap, result, cpc>>
    /\ UNCHANGED <<indexVars, pdf_processed, retrVars, embVars, chatVars>>

LongEnough(c) == Len(c) > MinChunkLen

\* Lines 70 and 82: the loop condition fails and the long chunks are returned.
ChunkReturn ==
    /\ cpc = "loop"
    /\ ~(start < Len(text))
    /\ result' = SelectSeq(chunks, LongEnough)
    /\ cpc' = "done"
    /\ UNCHANGED <<text, chunk_size, overlap, start, end, chunk, last_period,
                   chunks>>
    /\ UNCHANGED <<indexVars, pdf_processed, retrVars, embVars, chatVars>>

NextChunk == ChunkEnter \/ ChunkStep \/ ChunkReturn

InitSpecChunk ==
    InitChunk /\ IdleIndex /\ IdleRetrieve /\ IdleEmbedder /\ IdleChat

SpecChunk == InitSpecChunk /\ [][NextChunk]_vars

-----------------------------------------------------------------------------
(* Properties of chunk_text *)

\* C1: with chunk_size > overlap > 0 the start offsets of consecutive windows
\* strictly increase (which is what would make the loop reach the end of the
\* text and return).
C1_StartOffsetsIncrease ==
    [][(chunk_size > overlap /\ overlap > 0 /\ cpc = "loop" /\ cpc' = "loop")
          => start' > start]_vars

\* C2: a text no longer than chunk_size yields exactly one chunk when its
\* trimmed length exceeds 50 and none otherwise.  Returning rules out an
\* iteration that leaves the loop where it was (same text, same start: the
\* loop is deterministic, so it would repeat forever), and the value returned
\* has the stated number of chunks.
C2_ShortTextOneOrNoChunk ==
    [][(cpc = "loop" /\ Len(text) <= chunk_size)
          => /\ cpc' = "loop" => start' /= start
             /\ cpc' = "done" =>
                  Len(result') = IF Len(Strip(text)) > MinChunkLen THEN 1 ELSE 0]_vars

\* C3: with chunk_size - overlap <= 0 the call is rejected as InvalidConfig
\* before any chunking work: no chunk is ever emitted and the call never
\* returns a chunk list.
C3_InvalidConfigFailsFast ==
    (chunk_size - overlap <= 0) => (chunks = <<>> /\ cpc /= "done")

IsWhitespaceOnly(s) == \A i \in 1..Len(s) : s[i] \in Whitespace

\* e is c without its leading and trailing whitespace.
IsTrimOf(e, c) ==
    /\ e /= <<>> => (e[1] \notin Whitespace /\ e[Len(e)] \notin Whitespace)
    /\ \E i \in 0..Len(c) :
          /\ i + Len(e) <= Len(c)
          /\ SubSeq(c, i + 1, i + Len(e)) = e
          /\ IsWhitespaceOnly(SubSeq(c, 1, i))
          /\ IsWhitespaceOnly(SubSeq(c, i + Len(e) + 1, Len(c)))

\* C9: after each iteration: if the last ". " of the window lies at an offset
\* greater than half of chunk_size, the chunk is the window up to and
\* including that period, and the emitted chunk ends with a period; otherwise
\* the chunk is the whole window; the emitted chunk is the chunk trimmed, and
\* the next start is the previous start plus the untrimmed length minus overlap.
C9_WindowRule ==
    (chunks /= <<>>) =>
        LET from == end - chunk_size
            window == PySlice(text, from, end)
            ends == {p \in 0..(Len(window) - 2) :
                        window[p + 1] = Period /\ window[p + 2] = Space}
            last == {p \in ends : \A q \in ends : q <= p}
            emitted == chunks[Len(chunks)]
        IN  /\ \A p \in last :
                  2 * p > chunk_size =>
                      /\ chunk = SubSeq(window, 1, p + 1)
                      /\ emitted /= <<>>
                      /\ emitted[Len(emitted)] = Period
            /\ (\A p \in last : 2 * p <= chunk_size) => chunk = window
            /\ IsTrimOf(emitted, chunk)
            /\ start = from + Len(chunk) - overlap

\* A window was cut back to its last sentence end.
C9_Witness ==
    /\ chunks /= <<>>
    /\ last_period > chunk_size \div 2
    /\ Len(chunk) = last_period + 1
    /\ Len(chunk) < Len(PySlice(text, end - chunk_size, end))
    /\ chunks[Len(chunks)] = Strip(chunk)

-----------------------------------------------------------------------------
(* process_pdf and the upload block of app.py *)

HexDigits == <<"0", "1", "2", "3", "4", "5", "6", "7", "8", "9",
               "a", "b", "c", "d", "e", "f">>

\* str(n) for n >= 0.
RECURSIVE Decimal(_)
Decimal(n) ==
    IF n < 10 THEN <<HexDigits[n + 1]>>
    ELSE Decimal(n \div 10) \o <<HexDigits[(n % 10) + 1]>>

\* chunk.encode(): the bytes of the characters the model uses.
CharCode(c) ==
    CASE c = "a" -> 97 [] c = "b" -> 98 [] c = Period -> 46
      [] c = Space -> 32 [] c = Newline -> 10

RECURSIVE ByteSum(_, _)
ByteSum(s, i) == IF i > Len(s) THEN 0 ELSE CharCode(s[i]) + ByteSum(s, i + 1)

\* hashlib.md5(chunk.encode()).hexdigest()[:16]: sixteen hexadecimal digits
\* that depend on the content alone.  The digest stands for MD5 by a function
\* with the same shape and far more collisions (the bytes summed modulo 256):
\* equal texts have equal digests, different texts may.
Md5Hex16(s) ==
    LET d == ByteSum(s, 1) % 256
    IN  Rep("0", HexLen - 2) \o <<HexDigits[(d \div 16) + 1], HexDigits[(d % 16) + 1]>>

\* embedder.encode: one vector per text, a function of the text alone (here
\* two coordinates instead of 384).
Encode(s) ==
    <<Cardinality({i \in 1..Len(s) : s[i] = "a"}),
      Cardinality({i \in 1..Len(s) : s[i] = "b"})>>

\* An id that is the content hash alone, without the position.
ChunkIdHashOnly(c, i) == Md5Hex16(c)

\* Line 105: the id of the chunk at (0-based) position i.
ChunkId(c, i) == Md5Hex16(c) \o <<"_">> \o Decimal(i)

\* Lines 102-113.
BuildVectors(cs) ==
    [k \in 1..Len(cs) |->
        [id |-> ChunkId(cs[k], k - 1),
         values |-> Encode(cs[k]),
         metadata |-> [text |-> cs[k], chunk_index |-> k - 1]]]

\* A slice that loses the last vector of every full batch.
BatchOneShort(vs, i) == PySlice(vs, i, i + BatchSize - 1)

\* Line 116: vectors[i:i + batch_size].
Batch(vs, i) == PySlice(vs, i, i + BatchSize)

\* index.upsert: every vector of the batch is written under its id and
\* replaces what was there; of two vectors with one id the later one stays.
Upsert(idx, batch) ==
    LET ids == {batch[k].id : k \in 1..Len(batch)}
    IN  [id \in (DOMAIN idx) \cup ids |->
            IF id \in ids
            THEN LET k == Max({j \in 1..Len(batch) : batch[j].id = id})
                 IN  [values |-> batch[k].values, metadata |-> batch[k].metadata]
            ELSE idx[id]]

SentPositions(batch) == [k \in 1..Len(batch) |-> batch[k].metadata.chunk_index]

\* The chunk lists process_pdf works on (the value of chunk_text(text)):
\* trimmed texts longer than 50 characters, two of them with the same digest,
\* repeated with period p.  The upsert loop is modelled for every such list,
\* whatever chunk_text is able to return.
ChunkPool == <<Rep("a", MinChunkLen + 1),
               Rep("a", MinChunkLen - 1) \o <<"a", "b">>,
               Rep("a", MinChunkLen - 1) \o <<"b", "a">>>>
\* The lengths tried: the short ones, and those around one and two batches.
DocLengths ==
    (0..3) \cup {BatchSize - 1, BatchSize, BatchSize + 1,
                 2 * BatchSize - 1, 2 * BatchSize, MaxChunks}
Documents ==
    {[i \in 1..n |-> ChunkPool[((i - 1) % p) + 1]] :
        n \in DocLengths, p \in 1..Len(ChunkPool)}

InitIndex ==
    /\ pdf_chunks \in Documents
    /\ vectors = <<>> /\ batch_i = 0
    /\ index = <<>> /\ upsert_log = <<>> /\ returned = -1 /\ ppc = "idle"
    /\ pdf_processed = FALSE /\ status = "none" /\ runs = 0
    /\ completed = 0 /\ first_index = <<>>

\* app.py 117-123 and process_pdf 91-113: an upload not yet processed starts
\* process_pdf, which builds the vectors.
PdfBuild ==
    /\ ppc = "idle" /\ ~pdf_processed /\ runs < MaxRuns
    /\ runs' = runs + 1
    /\ vectors' = BuildVectors(pdf_chunks)
    /\ batch_i' = 0
    /\ upsert_log' = <<>>
    /\ returned' = -1
    /\ ppc' = "upsert"
    /\ UNCHANGED <<pdf_chunks, index, pdf_processed, status, completed, first_index>>
    /\ UNCHANGED <<chunkVars, retrVars, embVars, chatVars>>

\* init_pinecone, extract_text_from_pdf, chunk_text or encode raises: nothing
\* is built.
PdfEarlyRaise ==
    /\ ppc = "idle" /\ ~pdf_processed /\ runs < MaxRuns
    /\ runs' = runs + 1
    /\ vectors' = <<>>
    /\ batch_i' = 0
    /\ upsert_log' = <<>>
    /\ returned' = -1
    /\ ppc' = "raised"
    /\ UNCHANGED <<pdf_chunks, index, pdf_processed, status, completed, first_index>>
    /\ UNCHANGED <<chunkVars, retrVars, embVars, chatVars>>

\* Lines 115-116: one upsert call that succeeds.
UpsertOk ==
    /\ ppc = "upsert" /\ batch_i < Len(vectors)
    /\ index' = Upsert(index, Batch(vectors, batch_i))
    /\ upsert_log' = Append(upsert_log,
                            [sent |-> SentPositions(Batch(vectors, batch_i)),
                             ok |-> TRUE])
    /\ batch_i' = batch_i + BatchSize
    /\ UNCHANGED <<pdf_chunks, vectors, returned, ppc, pdf_processed, status,
                   runs, completed, first_index>>
    /\ UNCHANGED <<chunkVars, retrVars, embVars, chatVars>>

\* Lines 115-116: one upsert call that raises; the store may or may not have
\* applied the batch.  The exception leaves process_pdf.
UpsertRaise ==
    /\ ppc = "upsert" /\ batch_i < Len(vectors)
    /\ \E applied \in BOOLEAN :
          index' = IF applied THEN Upsert(index, Batch(vectors, batch_i)) ELSE index
    /\ upsert_log' = Append(upsert_log,
                            [sent |-> SentPositions(Batch(vectors, batch_i)),
                             ok |-> FALSE])
    /\ ppc' = "raised"
    /\ UNCHANGED <<pdf_chunks, vectors, batch_i, returned, pdf_processed, status,
                   runs, completed, first_index>>
    /\ UNCHANGED <<chunkVars, retrVars, embVars, chatVars>>

\* Lines 115 and 118: the range is exhausted and len(chunks) is returned.
\* first_index records the index as the first completed run left it.
PdfReturn ==
    /\ ppc = "upsert" /\ ~(batch_i < Len(vectors))
    /\ returned' = Len(pdf_chunks)
    /\ ppc' = "returned"
    /\ completed' = completed + 1
    /\ first_index' = IF completed = 0 THEN index ELSE first_index
    /\ UNCHANGED <<pdf_chunks, vectors, batch_i, index, upsert_log,
                   pdf_processed, status, runs>>
    /\ UNCHANGED <<chunkVars, retrVars, embVars, chatVars>>

\* app.py 124-126.
AppIndexed ==
    /\ ppc = "returned"
    /\ pdf_processed' = TRUE
    /\ status' = "indexed"
    /\ ppc' = "idle"
    /\ UNCHANGED <<pdf_chunks, vectors, batch_i, index, upsert_log, returned,
                   runs, completed, first_index>>
    /\ UNCHANGED <<chunkVars, retrVars, embVars, chatVars>>

\* app.py 127-128: the exception is caught and shown; pdf_processed stays False.
AppError ==
    /\ ppc = "raised"
    /\ status' = "error"
    /\ ppc' = "idle"
    /\ UNCHANGED <<pdf_chunks, vectors, batch_i, index, upsert_log, returned,
                   pdf_processed, runs, completed, first_index>>
    /\ UNCHANGED <<chunkVars, retrVars, embVars, chatVars>>

\* app.py 107-112: a new session starts with fresh session state and the same
\* document is uploaded again; the index is the vector store's and stays.
NewSession ==
    /\ ppc = "idle" /\ pdf_processed /\ runs < MaxRuns
    /\ pdf_processed' = FALSE
    /\ status' = "none"
    /\ UNCHANGED <<pdf_chunks, vectors, batch_i, index, upsert_log, returned,
                   ppc, runs, completed, first_index>>
    /\ UNCHANGED <<chunkVars, retrVars, embVars, chatVars>>

NextIndex ==
    \/ PdfBuild \/ PdfEarlyRaise \/ UpsertOk \/ UpsertRaise \/ PdfReturn
    \/ AppIndexed \/ AppError \/ NewSession

InitSpecIndex ==
    IdleChunk /\ InitIndex /\ IdleRetrieve /\ IdleEmbedder /\ IdleChat

SpecIndex == InitSpecIndex /\ [][NextIndex]_vars

-----------------------------------------------------------------------------
(* Properties of process_pdf *)

RECURSIVE SentSoFar(_, _)
SentSoFar(log, k) == IF k = 0 THEN <<>> ELSE SentSoFar(log, k - 1) \o log[k].sent

\* Vector v is in the index as it was built.
Stored(v) ==
    /\ v.id \in DOMAIN index
    /\ index[v.id] = [values |-> v.values, metadata |-> v.metadata]

\* C4: the upsert calls of a run carry at most 50 vectors each and together
\* the vectors 0, 1, 2, ... in order, each once; only the last call can have
\* failed; every batch whose call succeeded is in the index, also after a
\* later call failed; a failed call leaves the run raised to the caller (the
\* app shows the error and pdf_processed stays False), with no count
\* returned; a count is returned only when it is the number of chunks and all
\* of them are stored.
C4_BatchedUpsert ==
    LET n == Len(vectors)
        calls == Len(upsert_log)
        sent == SentSoFar(upsert_log, calls)
    IN  /\ \A k \in 1..calls : Len(upsert_log[k].sent) \in 1..BatchSize
        /\ Len(sent) <= n
        /\ \A j \in 1..Len(sent) : sent[j] = j - 1
        /\ \A k \in 1..(calls - 1) : upsert_log[k].ok
        /\ \A k \in 1..calls :
              upsert_log[k].ok =>
                  \A j \in 1..Len(upsert_log[k].sent) :
                      Stored(vectors[upsert_log[k].sent[j] + 1])
        /\ (calls > 0 /\ ~upsert_log[calls].ok) =>
              /\ ppc = "raised" \/ (ppc = "idle" /\ status = "error")
              /\ returned = -1
              /\ ~pdf_processed
        /\ returned >= 0 =>
              /\ returned = Len(pdf_chunks)
              /\ returned = n
              /\ Len(sent) = n
              /\ \A k \in 1..calls : upsert_log[k].ok
              /\ \A j \in 1..n : Stored(vectors[j])

\* The second upsert call of a run failed after the first had succeeded.
C4_Witness ==
    /\ Len(upsert_log) = 2
    /\ upsert_log[1].ok /\ ~upsert_log[2].ok
    /\ ppc = "raised"
    /\ Len(vectors) > 2 * BatchSize
    /\ \A j \in 1..BatchSize : Stored(vectors[j])
    /\ ~Stored(vectors[Len(vectors)])

\* C5: within a run the vectors at different positions have different ids,
\* also when their texts are equal; and once a run has completed, running
\* process_pdf again on the same document leaves the index as the first
\* completed run left it.
C5_StableDistinctIds ==
    /\ \A i, j \in 1..Len(vectors) : i /= j => vectors[i].id /= vectors[j].id
    /\ completed >= 1 => index = first_index

\* A document with equal chunks at different positions has been indexed twice.
C5_Witness ==
    /\ completed = 2
    /\ ppc = "returned"
    /\ Len(vectors) > BatchSize
    /\ vectors[1].metadata.text = vectors[2].metadata.text
    /\ index = first_index
    /\ Cardinality(DOMAIN index) = Len(vectors)

-----------------------------------------------------------------------------
(* retrieve_context *)

ContextSeparator == <<Newline, Newline, "-", "-", "-", Newline, Newline>>
SourceSeparator == <<Space, "|", Space>>
ChunkWord == <<"C", "h", "u", "n", "k", Space>>
ColonSpace == <<":", Space>>
Ellipsis == <<Period, Period, Period>>

\* sep.join(parts)
RECURSIVE Join(_, _)
Join(parts, sep) ==
    IF parts = <<>> THEN <<>>
    ELSE IF Len(parts) = 1 THEN parts[1]
    ELSE parts[1] \o sep \o Join(Tail(parts), sep)

\* A label that numbers the chunks from 0.
SourceLabelFromZero(i, c) ==
    ChunkWord \o Decimal(i) \o ColonSpace \o PySlice(c, 0, SnippetLen) \o Ellipsis

\* Line 139: f"Chunk {i+1}: {c[:60]}..." for the chunk at enumerate index i.
SourceLabel(i, c) ==
    ChunkWord \o Decimal(i + 1) \o ColonSpace \o PySlice(c, 0, SnippetLen) \o Ellipsis

\* index.query(top_k=k) on n stored chunks: the positions of the matches in
\* rank order, min(k, n) different ones; which ones and in what order is
\* the store's choice (it depends on the vectors).
Rankings(n, k) ==
    {r \in [1..Min2(k, n) -> 1..n] : \A i, j \in DOMAIN r : i /= j => r[i] /= r[j]}

\* The texts stored in the index: shorter than, as long as and longer than
\* the 60 characters a source label shows.
StoredTexts ==
    {Rep("a", SnippetLen - 2) \o <<"b">>,
     Rep("b", SnippetLen - 1) \o <<"a">>,
     Rep("a", SnippetLen) \o <<Period>>}
TopKs == {1, 2, DefaultTopK}

InitRetrieve ==
    /\ store \in UNION {[1..n -> StoredTexts] : n \in 0..MaxStored}
    /\ top_k \in TopKs
    /\ matches = <<>> /\ context = <<>> /\ sources = <<>>
    /\ rpc = "call"

\* Lines 126-135: the question is embedded, the index queried and the texts
\* of the matches taken in rank order.
RetrQuery ==
    /\ rpc = "call"
    /\ \E r \in Rankings(Len(store), top_k) :
          matches' = [j \in DOMAIN r |-> store[r[j]]]
    /\ rpc' = "queried"
    /\ UNCHANGED <<store, top_k, context, sources>>
    /\ UNCHANGED <<chunkVars, indexVars, pdf_processed, embVars, chatVars>>

\* Lines 136-141.
RetrCompose ==
    /\ rpc = "queried"
    /\ context' = Join(matches, ContextSeparator)
    /\ sources' = Join([i \in 1..Len(matches) |-> SourceLabel(i - 1, matches[i])],
                       SourceSeparator)
    /\ rpc' = "done"
    /\ UNCHANGED <<store, top_k, matches>>
    /\ UNCHANGED <<chunkVars, indexVars, pdf_processed, embVars, chatVars>>

NextRetrieve == RetrQuery \/ RetrCompose

InitSpecRetrieve ==
    IdleChunk /\ IdleIndex /\ InitRetrieve /\ IdleEmbedder /\ IdleChat

SpecRetrieve == InitSpecRetrieve /\ [][NextRetrieve]_vars

-----------------------------------------------------------------------------
(* Properties of retrieve_context *)

\* The offset in the joined string at which part i starts.
RECURSIVE OffsetOf(_, _, _)
OffsetOf(parts, sep, i) ==
    IF i = 1 THEN 0
    ELSE OffsetOf(parts, sep, i - 1) + Len(parts[i - 1]) + Len(sep)

\* s is the parts in order with sep between neighbours and nothing else.
IsJoinOf(s, parts, sep) ==
    LET n == Len(parts)
    IN  IF n = 0 THEN s = <<>>
        ELSE /\ Len(s) = OffsetOf(parts, sep, n) + Len(parts[n])
             /\ \A i \in 1..n :
                   LET at == OffsetOf(parts, sep, i)
                   IN  /\ SubSeq(s, at + 1, at + Len(parts[i])) = parts[i]
                       /\ i < n => SubSeq(s, at + Len(parts[i]) + 1,
                                          at + Len(parts[i]) + Len(sep)) = sep

RankDigit == <<"1", "2", "3", "4", "5", "6", "7", "8", "9">>

\* "Chunk <rank>: <first 60 chars>..."
ExpectedEntry(rank, c) ==
    ChunkWord \o <<RankDigit[rank]>> \o ColonSpace
        \o [j \in 1..Min2(Len(c), SnippetLen) |-> c[j]] \o Ellipsis

\* C6: the query returns n = min(top_k, stored) matches; the context is their
\* texts in rank order joined by the separator; the source label is n entries
\* "Chunk <rank>: <first 60 chars>..." with ranks 1..n in rank order joined by
\* " | "; with n = 0 both are the empty string.
C6_ContextAndSources ==
    LET n == Len(matches)
    IN  /\ rpc /= "call" => n = Min2(top_k, Len(store))
        /\ rpc = "done" =>
              /\ IsJoinOf(context, matches, ContextSeparator)
              /\ IsJoinOf(sources,
                          [i \in 1..n |-> ExpectedEntry(i, matches[i])],
                          SourceSeparator)
              /\ n = 0 => (context = <<>> /\ sources = <<>>)

\* Three stored chunks queried with top_k = 4: three ranked results, one of
\* them longer than a label shows.
C6_Witness ==
    /\ rpc = "done"
    /\ Len(store) = 3 /\ top_k = DefaultTopK /\ Len(matches) = 3
    /\ \E i \in 1..3 : Len(matches[i]) > SnippetLen
    /\ matches[1] /= store[1]
    /\ sources /= <<>>

-----------------------------------------------------------------------------
(* get_embedder, called once by each of several threads *)

InitEmbedder == IdleEmbedder

Inside(t) == tpc[t] \notin {"idle", "done"}

\* A test that always loads the model.
NeedsLoadAlways(e) == TRUE

\* Line 25: _embedder is None (0 stands for None).
NeedsLoad(e) == e = 0

\* Thread t calls get_embedder.  serial records that no call has so far begun
\* while another call was under way with _embedder still None.
EmbCall(t) ==
    /\ tpc[t] = "idle"
    /\ tpc' = [tpc EXCEPT ![t] = "check"]
    /\ serial' = (serial /\ ~(embedder = 0 /\ \E u \in Threads \ {t} : Inside(u)))
    /\ UNCHANGED <<embedder, built, got, constructed>>
    /\ UNCHANGED <<chunkVars, indexVars, pdf_processed, retrVars, chatVars>>

\* Line 25.
EmbCheck(t) ==
    /\ tpc[t] = "check"
    /\ tpc' = [tpc EXCEPT ![t] = IF NeedsLoad(embedder) THEN "construct" ELSE "return"]
    /\ UNCHANGED <<embedder, built, got, constructed, serial>>
    /\ UNCHANGED <<chunkVars, indexVars, pdf_processed, retrVars, chatVars>>

\* Line 26, right-hand side: a model is constructed (instances are numbered).
EmbConstruct(t) ==
    /\ tpc[t] = "construct"
    /\ constructed' = constructed + 1
    /\ built' = [built EXCEPT ![t] = constructed + 1]
    /\ tpc' = [tpc EXCEPT ![t] = "assign"]
    /\ UNCHANGED <<embedder, got, serial>>
    /\ UNCHANGED <<chunkVars, indexVars, pdf_processed, retrVars, chatVars>>

\* Line 26, the assignment to the global.
EmbAssign(t) ==
    /\ tpc[t] = "assign"
    /\ embedder' = built[t]
    /\ tpc' = [tpc EXCEPT ![t] = "return"]
    /\ UNCHANGED <<built, got, constructed, serial>>
    /\ UNCHANGED <<chunkVars, indexVars, pdf_processed, retrVars, chatVars>>

\* Line 27: the global is read again and returned.
EmbReturn(t) ==
    /\ tpc[t] = "return"
    /\ got' = [got EXCEPT ![t] = embedder]
    /\ tpc' = [tpc EXCEPT ![t] = "done"]
    /\ UNCHANGED <<embedder, built, constructed, serial>>
    /\ UNCHANGED <<chunkVars, indexVars, pdf_processed, retrVars, chatVars>>

NextEmbedder ==
    \E t \in Threads :
        EmbCall(t) \/ EmbCheck(t) \/ EmbConstruct(t) \/ EmbAssign(t) \/ EmbReturn(t)

InitSpecEmbedder ==
    IdleChunk /\ IdleIndex /\ IdleRetrieve /\ InitEmbedder /\ IdleChat

SpecEmbedder == InitSpecEmbedder /\ [][NextEmbedder]_vars

-----------------------------------------------------------------------------
(* Properties of get_embedder *)

\* C7: as long as first use is serialized (no call begins while another is
\* under way and the model is not yet assigned) the model is constructed at
\* most once, exactly once as soon as a call has returned, and every caller
\* gets that one instance.  Without that the guard does not protect: the
\* state C7_Witness describes is reachable.
C7_SerializedLoadsOnce ==
    serial =>
        /\ constructed <= 1
        /\ \A t \in Threads :
              tpc[t] = "done" => (constructed = 1 /\ got[t] = 1 /\ embedder = 1)

\* Two threads passed the None test before either assigned: the model was
\* constructed twice and two callers hold different instances.
C7_Witness ==
    /\ ~serial
    /\ constructed = 2
    /\ \E t, u \in Threads :
          /\ tpc[t] = "done" /\ tpc[u] = "done"
          /\ got[t] /= got[u]
          /\ got[t] /= 0 /\ got[u] /= 0

-----------------------------------------------------------------------------
(* The chat of one session (app.py 136-197) *)

Suggestions == {"What are the prerequisites for this course?",
                "How is the final grade calculated?"}
Typed == {"When is the exam?", "Who teaches the course?"}

\* What answer_question returns when it returns: the model's answer and the
\* source label (empty when nothing was retrieved).
Answers == {[answer |-> "It is in week 3.", sources |-> ""],
            [answer |-> "It is in week 3.", sources |-> "Chunk 1: Week 3..."]}

UserMessage(q) == [role |-> "user", content |-> q]
AssistantMessage(r) ==
    [role |-> "assistant", content |-> r.answer, sources |-> r.sources]

\* An assignment of a fresh list in place of the append.
StartOver(msgs, m) == <<m>>

\* st.session_state.messages.append(m)
AppendMessage(msgs, m) == Append(msgs, m)

InitChat ==
    /\ messages = <<>>
    /\ last_action = "none"
    /\ pdf_processed = FALSE

\* app.py 117-131: a script run with an upload not yet processed; process_pdf
\* returns, or an exception is caught and shown.
UploadRun ==
    /\ ~pdf_processed
    /\ \E ok \in BOOLEAN : pdf_processed' = ok
    /\ last_action' = "upload"
    /\ UNCHANGED messages
    /\ UNCHANGED <<chunkVars, indexVars, retrVars, embVars>>

\* app.py 154-178: a suggestion is clicked (they are offered while the chat is
\* empty), becomes the pending question, and is answered in the same run.
SuggestionAnswered ==
    /\ pdf_processed /\ messages = <<>>
    /\ \E q \in Suggestions, r \in Answers :
          messages' = AppendMessage(AppendMessage(messages, UserMessage(q)),
                                    AssistantMessage(r))
    /\ last_action' = "suggestion"
    /\ UNCHANGED <<chunkVars, indexVars, pdf_processed, retrVars, embVars>>

\* app.py 168-174: answer_question raises (the query or the Groq call fails);
\* nothing catches it, the run ends, the user's message is already appended.
SuggestionRaised ==
    /\ pdf_processed /\ messages = <<>>
    /\ \E q \in Suggestions :
          messages' = AppendMessage(messages, UserMessage(q))
    /\ last_action' = "suggestion"
    /\ UNCHANGED <<chunkVars, indexVars, pdf_processed, retrVars, embVars>>

\* app.py 181-191: a question is typed and answered.
QuestionAnswered ==
    /\ pdf_processed /\ Len(messages) < MaxMessages
    /\ \E q \in Typed, r \in Answers :
          messages' = AppendMessage(AppendMessage(messages, UserMessage(q)),
                                    AssistantMessage(r))
    /\ last_action' = "question"
    /\ UNCHANGED <<chunkVars, indexVars, pdf_processed, retrVars, embVars>>

\* app.py 181-187: answer_question raises after the user's message was appended.
QuestionRaised ==
    /\ pdf_processed /\ Len(messages) < MaxMessages
    /\ \E q \in Typed :
          messages' = AppendMessage(messages, UserMessage(q))
    /\ last_action' = "question"
    /\ UNCHANGED <<chunkVars, indexVars, pdf_processed, retrVars, embVars>>

\* app.py 194-197.
ClearChat ==
    /\ pdf_processed /\ messages /= <<>>
    /\ messages' = <<>>
    /\ last_action' = "clear"
    /\ UNCHANGED <<chunkVars, indexVars, pdf_processed, retrVars, embVars>>

NextChat ==
    \/ UploadRun \/ SuggestionAnswered \/ SuggestionRaised
    \/ QuestionAnswered \/ QuestionRaised \/ ClearChat

InitSpecChat ==
    IdleChunk /\ IdleIndex /\ IdleRetrieve /\ IdleEmbedder /\ InitChat

SpecChat == InitSpecChat /\ [][NextChat]_vars

-----------------------------------------------------------------------------
(* Properties of the chat *)

IsPrefix(a, b) == Len(a) <= Len(b) /\ SubSeq(b, 1, Len(a)) = a

\* C8: the message list is append-only: after every user action the previous
\* list is a prefix of the new one.
C8_AppendOnly == [][IsPrefix(messages, messages')]_vars

\* C8, amended: after every user action other than Clear Chat the previous
\* list is a prefix of the new one; Clear Chat leaves the empty list.
C8_AppendOnlyUntilCleared ==
    [][/\ last_action' /= "clear" => IsPrefix(messages, messages')
       /\ last_action' = "clear" => messages' = <<>>]_vars

\* A question was answered in a chat that already held two turns.
C8_Witness ==
    /\ last_action = "question"
    /\ Len(messages) = 4
    /\ messages[4].role = "assistant"

\* C10: once a question has been handled the messages alternate user,
\* assistant, user, assistant, ...: each user message is followed by an
\* assistant message with the answer and its sources, and the last message is
\* not a user message.
C10_TurnsAlternate ==
    (last_action \in {"suggestion", "question"}) =>
        /\ Len(messages) % 2 = 0
        /\ \A i \in 1..Len(messages) :
              messages[i].role = IF i % 2 = 1 THEN "user" ELSE "assistant"

=============================================================================
